---- MODULE Spec2Model ----
(***************************************************************************)
(* dgraph-orm: the object mapper (expand + transform), the predicate       *)
(* collection (PredicateImpl), the facet store, the diff tracker and the   *)
(* schema builder, as one state machine.                                   *)
(*                                                                         *)
(* JavaScript objects are modelled by identity: raw records, raw arrays,   *)
(* instances, instance arrays, predicate collections and facet objects     *)
(* are numbered, and every reference is such a number.                     *)
(***************************************************************************)
EXTENDS Naturals, Sequences, FiniteSets, TLC

\* ------------------------------------------------------------------ bounds

\* Number of root records handed to addJsonData.
MaxRoots == 2
\* Number of operations the application performs on the built graph.
MaxOps == 3

\* ------------------------------------------------------------------ values

\* A JavaScript value held by a field: absent (undefined), a string, a number,
\* a reference to a raw array of records, or the type-tag array of strings.
Abs == [t |-> "abs", s |-> "", n |-> 0]
Str(x) == [t |-> "str", s |-> x, n |-> 0]
Num(k) == [t |-> "num", s |-> "", n |-> k]
Arr(k) == [t |-> "arr", s |-> "", n |-> k]
Tags == [t |-> "tags", s |-> "Person", n |-> 0]

InSeq(x, sq) == \E i \in 1..Len(sq) : sq[i] = x

\* ---------------------------------------------------------------- metadata

\* The uids of the input and the rendering of a missing uid in a template
\* literal.
UidSeq == <<"a", "b">>
Uids == {UidSeq[i] : i \in 1..Len(UidSeq)}
NoUid == "undefined"

\* The reserved type-tag field that expand never descends into.
TypeTag == "dgraph.type"

\* The declared scalar property of the node type: property name and the
\* externally visible name.
Properties == << [propertyName |-> "name", name |-> "Person.name"] >>

\* The declared predicates of the node type, in declaration order; facets
\* lists the property names of the facet type of the predicate.
Predicates ==
  << [propertyName |-> "friends", name |-> "Person.friends", facets |-> <<"order">>],
     [propertyName |-> "likes", name |-> "Person.likes", facets |-> << >>] >>

PredIdx == 1..Len(Predicates)

\* The name of the inline field that carries facet f of predicate p.
FacetKey(p, f) == Predicates[p].name \o "|" \o f

FriendsKey == Predicates[1].name
LikesKey == Predicates[2].name
OrderKey == FacetKey(1, "order")
NameKey == Properties[1].name

AllKeys == {"uid", TypeTag, NameKey, FriendsKey, LikesKey, OrderKey}

\* -------------------------------------------------------------- raw records

\* A raw record: its own keys in insertion order and the value of each.
MkRec(pairs) ==
  [keys |-> [i \in 1..Len(pairs) |-> pairs[i][1]],
   val |-> [k \in AllKeys |->
              IF \E i \in 1..Len(pairs) : pairs[i][1] = k
              THEN (pairs[CHOOSE i \in 1..Len(pairs) : pairs[i][1] = k])[2]
              ELSE Abs]]

\* source.uid as the code reads it, rendered as in a template literal.
UidOf(rec) == IF rec.val["uid"].t = "str" THEN rec.val["uid"].s ELSE NoUid

\* Object.assign(target, src): every own key of src overwrites the key of
\* target; keys new to target are appended in the order of src.
ObjectAssign(target, src) ==
  [keys |-> target.keys \o SelectSeq(src.keys, LAMBDA k : ~InSeq(k, target.keys)),
   val |-> [k \in AllKeys |-> IF InSeq(k, src.keys) THEN src.val[k] ELSE target.val[k]]]

\* ------------------------------------------------------------ input layout

UidOrNone == Uids \cup {NoUid}

NoField == << "nofield" >>

\* The uids of the element records an edge field of a root record holds inline,
\* and of those an edge field of a record of the resource data holds.
RootKidLists == {<<"a">>, <<"b">>, <<NoUid>>, <<"b", "b">>, <<"a", "b">>}
ResKidLists == {<<"a">>, <<"b">>, <<NoUid>>}

MaxOf(S) == CHOOSE m \in S : \A k \in S : k <= m
MaxKids == MaxOf({Len(l) : l \in RootKidLists})
MaxResKids == MaxOf({Len(l) : l \in ResKidLists})

\* Identities of the raw records and raw arrays of an input.
RootId(i) == i
KidId(i, j) == MaxRoots + (i - 1) * MaxKids + j
ResBase == MaxRoots * (1 + MaxKids)
ResId(u) == ResBase + u
ResKidId(u, j) == ResBase + Len(UidSeq) + (u - 1) * MaxResKids + j
NumRecs == ResBase + Len(UidSeq) * (1 + MaxResKids)

RootArr(i) == i
ResArr(u) == MaxRoots + u
JsonArr == MaxRoots + Len(UidSeq) + 1
NumArrs == JsonArr

\* The root records of a query result: one to MaxRoots records with a uid (or
\* none) each and edge fields of one shape, every record and every array an
\* object of its own.
RootInputs ==
  UNION {{[i \in 1..m |-> [uid |-> us[i], kids |-> ks]] :
            us \in [1..m -> UidOrNone], ks \in RootKidLists \cup {NoField}} :
         m \in 1..MaxRoots}

\* A record of the resource data: not given, or given with an edge field that
\* is absent or holds element records; alias says that its second edge field
\* is the same array object as the first.
ResShapes ==
  [given : {FALSE}, kids : {NoField}, alias : {FALSE}]
    \cup [given : {TRUE}, kids : {NoField}, alias : {FALSE}]
    \cup [given : {TRUE}, kids : ResKidLists, alias : BOOLEAN]

\* The resource data: a record or none for each uid; only the record of the
\* first uid may hold one array under both edge fields.
ResInputs == {res \in [1..Len(UidSeq) -> ResShapes] : \A u \in 2..Len(UidSeq) : ~res[u].alias}

\* An element record as it appears inline under an edge field: partial data
\* and the facet of the edge.
KidRec(id, uid) ==
  MkRec((IF uid = NoUid THEN << >> ELSE << <<"uid", Str(uid)>> >>)
          \o << <<NameKey, Str("inline")>>, <<OrderKey, Num(id)>> >>)

RootRec(i, sh) ==
  MkRec((IF sh.uid = NoUid THEN << >> ELSE << <<"uid", Str(sh.uid)>> >>)
          \o << <<TypeTag, Tags>>, <<NameKey, Str("root")>> >>
          \o (IF sh.kids = NoField THEN << >> ELSE << <<FriendsKey, Arr(RootArr(i))>> >>))

ResRec(u, sh) ==
  MkRec(<< <<"uid", Str(UidSeq[u])>>, <<TypeTag, Tags>>, <<NameKey, Str("full")>> >>
          \o (IF sh.kids = NoField THEN << >> ELSE << <<FriendsKey, Arr(ResArr(u))>> >>)
          \o (IF sh.alias THEN << <<LikesKey, Arr(ResArr(u))>> >> ELSE << >>))

Unused == MkRec(<< >>)

\* The raw records of an input: roots, their elements, the records of the
\* resource data, their elements.
InputRecs(roots, res) ==
  [r \in 1..NumRecs |->
     IF \E i \in 1..Len(roots) : r = RootId(i)
     THEN RootRec(r, roots[r])
     ELSE IF \E i \in 1..Len(roots) : roots[i].kids # NoField
                 /\ \E j \in 1..Len(roots[i].kids) : r = KidId(i, j)
     THEN LET i == CHOOSE i \in 1..Len(roots) : roots[i].kids # NoField
                        /\ \E j \in 1..Len(roots[i].kids) : r = KidId(i, j)
              j == CHOOSE j \in 1..Len(roots[i].kids) : r = KidId(i, j)
          IN KidRec(r, roots[i].kids[j])
     ELSE IF \E u \in 1..Len(UidSeq) : res[u].given /\ r = ResId(u)
     THEN LET u == CHOOSE u \in 1..Len(UidSeq) : r = ResId(u)
          IN ResRec(u, res[u])
     ELSE IF \E u \in 1..Len(UidSeq) : res[u].kids # NoField
                 /\ \E j \in 1..Len(res[u].kids) : r = ResKidId(u, j)
     THEN LET u == CHOOSE u \in 1..Len(UidSeq) : res[u].kids # NoField
                        /\ \E j \in 1..Len(res[u].kids) : r = ResKidId(u, j)
              j == CHOOSE j \in 1..Len(res[u].kids) : r = ResKidId(u, j)
          IN KidRec(r, res[u].kids[j])
     ELSE Unused]

InputArrs(roots, res) ==
  [a \in 1..NumArrs |->
     IF a = JsonArr THEN [i \in 1..Len(roots) |-> RootId(i)]
     ELSE IF a \in 1..Len(roots) /\ roots[a].kids # NoField
     THEN [j \in 1..Len(roots[a].kids) |-> KidId(a, j)]
     ELSE IF \E u \in 1..Len(UidSeq) : a = ResArr(u) /\ res[u].kids # NoField
     THEN LET u == CHOOSE u \in 1..Len(UidSeq) : a = ResArr(u)
          IN [j \in 1..Len(res[u].kids) |-> ResKidId(u, j)]
     ELSE << >>]

\* The records of the resource data, in the order of the array handed to
\* addResourceData.
ResourceData(res) ==
  LET Given(u) == res[u].given
      F[u \in 0..Len(UidSeq)] ==
        IF u = 0 THEN << >>
        ELSE IF Given(u) THEN Append(F[u - 1], ResId(u)) ELSE F[u - 1]
  IN F[Len(UidSeq)]

\* --------------------------------------------------------------- instances

\* The inline facet fields of all predicates.
FacetKeys ==
  UNION {{FacetKey(p, Predicates[p].facets[k]) : k \in 1..Len(Predicates[p].facets)} :
         p \in PredIdx}

NoAcc == [p \in PredIdx |-> [installed |-> FALSE, stored |-> 0]]

\* plainToClass(cls, record) with strategy exposeAll: a new instance that
\* carries the own fields of the record; src remembers the record it was built
\* from. The values the library builds for
\* the edge fields are dropped when trackPredicate redefines the property, and
\* are not kept here.
NewInstance(src, rec) ==
  [src |-> src,
   uid |-> rec.val["uid"],
   name |-> rec.val[NameKey],
   own |-> [k \in FacetKeys |-> rec.val[k]],
   tracked |-> {},
   acc |-> NoAcc,
   dirty |-> {}]

\* plainToClass(cls, plain) for an array: one new instance per element, in a
\* new array.
plainToClass(H, ids, recs) ==
  LET base == Len(H.ins)
  IN [H EXCEPT !.ins = @ \o [k \in 1..Len(ids) |-> NewInstance(ids[k], recs[ids[k]])],
               !.iarr = Append(@, [k \in 1..Len(ids) |-> base + k])]

\* ------------------------------------------------------------ diff tracker

\* DiffTracker.trackProperty: observe assignments to the property.
trackProperty(inst, propertyName) == [inst EXCEPT !.tracked = @ \cup {propertyName}]

\* An assignment to a scalar property: marks it dirty once it is tracked.
AssignProperty(inst, propertyName, v) ==
  [inst EXCEPT !.name = v,
               !.dirty = IF propertyName \in inst.tracked THEN @ \cup {propertyName} ELSE @]

\* DiffTracker.purgeInstance: clear every dirty mark.
purgeInstance(inst) == [inst EXCEPT !.dirty = {}]

diffOf(inst) == inst.dirty

\* ------------------------------------------------------------- facet store

SameBinding(e, ns, owner, child) == e.ns = ns /\ e.owner = owner /\ e.child = child

\* FacetStorage.attach: overwrite the binding of the triple.
FacetAttach(store, ns, owner, child, facet) ==
  {e \in store : ~SameBinding(e, ns, owner, child)}
    \cup {[ns |-> ns, owner |-> owner, child |-> child, facet |-> facet]}

\* FacetStorage.get: the facet bound to the triple, 0 when there is none.
FacetGet(store, ns, owner, child) ==
  IF \E e \in store : SameBinding(e, ns, owner, child)
  THEN (CHOOSE e \in store : SameBinding(e, ns, owner, child)).facet
  ELSE 0

\* FacetStorage.detach: remove the binding of the triple.
FacetDetach(store, ns, owner, child) ==
  {e \in store : ~SameBinding(e, ns, owner, child)}

\* ---------------------------------------------------- predicate collection

\* new PredicateImpl(namespace, parent, data): no facet staged, empty diff.
PredicateImpl(ns, parent, data) ==
  [ns |-> ns, parent |-> parent, data |-> data, diff |-> {}, facet |-> 0]

\* withFacet(facet)
withFacet(H, c, facet) == [H EXCEPT !.colls[c].facet = facet]

\* getFacet(node)
getFacet(H, c, node) == FacetGet(H.fstore, H.colls[c].ns, H.colls[c].parent, node)

\* add(node) that leaves the staged facet in place.
addKeepsStage(H, c, node) ==
  LET col == H.colls[c]
      H1 == IF col.facet # 0
            THEN [H EXCEPT !.fstore = FacetAttach(@, col.ns, col.parent, node, col.facet)]
            ELSE H
  IN [H1 EXCEPT !.iarr[col.data] = Append(@, node),
                !.colls[c].diff = @ \cup {node}]

\* add(node) that does not record the node as new.
addUnrecorded(H, c, node) ==
  LET col == H.colls[c]
      H1 == IF col.facet # 0
            THEN [H EXCEPT !.fstore = FacetAttach(@, col.ns, col.parent, node, col.facet),
                           !.colls[c].facet = 0]
            ELSE H
  IN [H1 EXCEPT !.iarr[col.data] = Append(@, node)]

\* add(node)
add(H, c, node) ==
  LET col == H.colls[c]
      H1 == IF col.facet # 0
            THEN [H EXCEPT !.fstore = FacetAttach(@, col.ns, col.parent, node, col.facet),
                           !.colls[c].facet = 0]
            ELSE H
  IN [H1 EXCEPT !.iarr[col.data] = Append(@, node),
                !.colls[c].diff = @ \cup {node}]

\* update(node) that returns without detaching when nothing is staged.
updateKeepsFacet(H, c, node) ==
  LET col == H.colls[c]
  IN IF col.facet = 0
     THEN H
     ELSE [H EXCEPT !.fstore = FacetAttach(@, col.ns, col.parent, node, col.facet)]

\* update(node)
update(H, c, node) ==
  LET col == H.colls[c]
  IN IF col.facet = 0
     THEN [H EXCEPT !.fstore = FacetDetach(@, col.ns, col.parent, node)]
     ELSE [H EXCEPT !.fstore = FacetAttach(@, col.ns, col.parent, node, col.facet)]

\* get()
get(H, c) == H.iarr[H.colls[c].data]

\* detach(node) that unbinds the facet of the node and returns.
detachUnbinds(H, c, node) ==
  [heap |-> [H EXCEPT !.fstore = FacetDetach(@, H.colls[c].ns, H.colls[c].parent, node)],
   thrown |-> ""]

\* detach(node): the heap it leaves and the message of the error it throws.
detach(H, c, node) == [heap |-> H, thrown |-> "Not implemented"]

\* delete(node)
delete(H, c, node) == [heap |-> H, thrown |-> "Not implemented"]

\* getDiff() that returns the items instead of the new items.
getDiffAllItems(H, c) ==
  {H.iarr[H.colls[c].data][k] : k \in 1..Len(H.iarr[H.colls[c].data])}

\* getDiff()
getDiff(H, c) == H.colls[c].diff

\* ------------------------------------------------------ predicate accessors

\* trackProperties(instance): track every declared scalar property.
trackProperties(H, i) ==
  LET F[k \in 0..Len(Properties)] ==
        IF k = 0 THEN H.ins[i] ELSE trackProperty(F[k - 1], Properties[k].propertyName)
  IN [H EXCEPT !.ins[i] = F[Len(Properties)]]

\* trackPredicate(instance, metadata): define the accessor pair, with nothing
\* stored.
trackPredicate(H, i, p) ==
  [H EXCEPT !.ins[i].acc[p] = [installed |-> TRUE, stored |-> 0]]

\* The getter: create an empty collection when nothing is stored.
PredicateGetter(H, i, p) ==
  IF H.ins[i].acc[p].stored # 0 THEN H
  ELSE LET H1 == [H EXCEPT !.iarr = Append(@, << >>)]
           H2 == [H1 EXCEPT !.colls =
                    Append(@, PredicateImpl(Predicates[p].propertyName, i, Len(H1.iarr)))]
       IN [H2 EXCEPT !.ins[i].acc[p].stored = Len(H2.colls)]

\* The body of the setter for one element v: move the facet fields of v into
\* a new facet instance, attach it, purge the facet instance and purge v.
ExtractFacet(H, i, p, v) ==
  LET facets == Predicates[p].facets
      fnames == {facets[k] : k \in 1..Len(facets)}
      plain == [f \in fnames |-> H.ins[v].own[FacetKey(p, f)]]
      moved == {FacetKey(p, f) : f \in fnames}
  IN [H EXCEPT !.ins[v].own = [k \in FacetKeys |-> IF k \in moved THEN Abs ELSE @[k]],
               !.ins[v].dirty = {},
               !.fobj = Append(@, [fields |-> plain, dirty |-> {}]),
               !.fstore = FacetAttach(@, Predicates[p].propertyName, i, v, Len(H.fobj) + 1)]

RECURSIVE ExtractAll(_, _, _, _)
ExtractAll(H, i, p, elems) ==
  IF elems = << >> THEN H
  ELSE ExtractAll(ExtractFacet(H, i, p, Head(elems)), i, p, Tail(elems))

\* A value written to a predicate property: nothing, an array, a collection.
NoValue == [k |-> "none", id |-> 0]
ArrayValue(a) == [k |-> "arr", id |-> a]
CollValue(c) == [k |-> "coll", id |-> c]

\* The setter: wrap a missing value or an array into a new collection, extract
\* the facets of every element, store the collection.
PredicateSetter(H, i, p, value) ==
  LET H0 == IF value.k = "none" THEN [H EXCEPT !.iarr = Append(@, << >>)] ELSE H
      data == IF value.k = "none" THEN Len(H0.iarr) ELSE value.id
      H1 == IF value.k = "coll" THEN H0
            ELSE [H0 EXCEPT !.colls =
                    Append(@, PredicateImpl(Predicates[p].propertyName, i, data))]
      c == IF value.k = "coll" THEN value.id ELSE Len(H1.colls)
      H2 == ExtractAll(H1, i, p, get(H1, c))
  IN [H2 EXCEPT !.ins[i].acc[p].stored = c]

\* ---------------------------------------------------------- schema builder

\* Number of declarations registered before the schema is built.
MaxDecl == 6

\* A registered descriptor: the declaring type, the property, the external
\* name ("" when not overridden), the kind (uid, a scalar type, an array of a
\* scalar type, node) and the index ("" when none was declared).
Decl(type, propertyName, name, kind, index) ==
  [type |-> type, propertyName |-> propertyName, name |-> name, kind |-> kind,
   index |-> index]

\* The declarations of the schema test, in the order the decorators run.
TestDecls ==
  << Decl("Work", "id", "", "uid", ""),
     Decl("Work", "name", "", "string", ""),
     Decl("Person", "id", "", "uid", ""),
     Decl("Person", "name", "name", "string", "hash"),
     Decl("Person", "hobbies", "", "[string]", ""),
     Decl("Person", "works", "", "node", "") >>

\* The text the schema test expects.
expectedSchema ==
  "type Work {\n  Work.name: string\n}\ntype Person {\n  name: string\n  Person.hobbies: [string]\n}\nWork.name:string\n@index(hash) name:string\nPerson.hobbies:[string]\n"

\* Further declarations: a second property with the external name "name", and
\* an indexed property with a generated name.
MoreDecls ==
  { Decl("Work", "title", "name", "string", ""),
    Decl("Person", "nick", "", "string", "exact") }

DeclChoices == {TestDecls[k] : k \in 1..Len(TestDecls)} \cup MoreDecls

NotBuilt == [built |-> FALSE, lines |-> << >>, text |-> ""]

\* The global name of a property: the external name when overridden, else
\* <TypeName>.<propertyName>.
GlobalName(d) == IF d.name # "" THEN d.name ELSE d.type \o "." \o d.propertyName

\* Scalar and array-of-scalar properties have lines; uid fields and
\* node-typed predicates have none.
HasLine(d) == d.kind \notin {"uid", "node"}

\* The type names in first-registration order.
TypesOf(m) ==
  LET F[k \in 0..Len(m)] ==
        IF k = 0 THEN << >>
        ELSE IF InSeq(m[k].type, F[k - 1]) THEN F[k - 1] ELSE Append(F[k - 1], m[k].type)
  IN F[Len(m)]

BlockLine(d) == "  " \o GlobalName(d) \o ": " \o d.kind

FlatLine(d) ==
  (IF d.index # "" THEN "@index(" \o d.index \o ") " ELSE "") \o GlobalName(d) \o ":" \o d.kind

\* The block of one type: its header, a line per property, the closing brace.
TypeBlock(m, T) ==
  LET mine == SelectSeq(m, LAMBDA d : d.type = T /\ HasLine(d))
  IN << "type " \o T \o " {" >> \o [k \in 1..Len(mine) |-> BlockLine(mine[k])] \o << "}" >>

\* Whether descriptor k is the first registered one with its global name.
FirstOfName(m, k) ==
  \A j \in 1..(k - 1) : ~(HasLine(m[j]) /\ GlobalName(m[j]) = GlobalName(m[k]))

\* The flat lines without the deduplication by global name.
FlatLinesPerProperty(m) ==
  LET with == SelectSeq(m, HasLine)
  IN [k \in 1..Len(with) |-> FlatLine(with[k])]

\* The flat lines: one per distinct global name, in first-registration order.
FlatLines(m) ==
  LET F[k \in 0..Len(m)] ==
        IF k = 0 THEN << >>
        ELSE IF HasLine(m[k]) /\ FirstOfName(m, k)
             THEN Append(F[k - 1], FlatLine(m[k]))
             ELSE F[k - 1]
  IN F[Len(m)]

SchemaLines(m) ==
  LET ts == TypesOf(m)
      B[k \in 0..Len(ts)] == IF k = 0 THEN << >> ELSE B[k - 1] \o TypeBlock(m, ts[k])
  IN B[Len(ts)] \o FlatLines(m)

\* Every line is terminated by a newline.
Render(lines) ==
  LET R[k \in 0..Len(lines)] == IF k = 0 THEN "" ELSE R[k - 1] \o lines[k] \o "\n"
  IN R[Len(lines)]

\* ------------------------------------------------------------------- state

VARIABLES
  rawRec,       \* raw record id -> raw record (expand changes it in place)
  rawArr,       \* raw array id -> sequence of raw record ids
  resData,      \* the records the application hands to addResourceData
  pc,           \* position of the builder: new, expand, transform, done
  jsonData,     \* _jsonData: raw array id, 0 while unset
  resource,     \* _resource: uid -> raw record id, 0 when the uid is not indexed
  visited,      \* expand: the set of visiting keys
  eroot,        \* expand: index of the root record being expanded
  estack,       \* expand: the call stack, innermost frame last
  descended,    \* history: the visiting keys expand descended through, in order
  heap,         \* instances, instance arrays, collections, facets, facet store
  storage,      \* transform: instanceStorage, raw array id -> instance array id
  tstack,       \* transform: the call stack of plainToClassExecutor
  converted,    \* history: the raw arrays plainToClass was run on, in order
  result,       \* the instance array build returned, 0 before it returns
  ops,          \* number of operations the application has performed
  last,         \* the last operation of the application and what it saw
  addLog,       \* history: the pairs (collection, element) passed to add
  meta,         \* metadata registry: the descriptors in registration order
  schema        \* what SchemaBuilder.build() returned last

rawVars == <<rawRec, rawArr, resData>>
cfgVars == <<jsonData, resource>>
expVars == <<visited, eroot, estack, descended>>
trVars == <<heap, storage, tstack, converted, result>>
appVars == <<ops, last, addLog>>
schemaVars == <<meta, schema>>
vars == <<rawVars, pc, cfgVars, expVars, trVars, appVars, schemaVars>>

\* ---------------------------------------------------------------- builder

NoResource == [u \in Uids |-> 0]
EmptyHeap == [ins |-> << >>, iarr |-> << >>, colls |-> << >>, fobj |-> << >>, fstore |-> {}]

\* What the application did last: the operation, the collection and element
\* (or the owner, predicate and value of a property write), the facet that
\* was staged and the facet that was bound to the element when it was called.
Did(op, c, x, staged, before, owner, p, value) ==
  [op |-> op, c |-> c, x |-> x, staged |-> staged, before |-> before,
   owner |-> owner, p |-> p, value |-> value, thrown |-> ""]
NoOp == Did("none", 0, 0, 0, 0, 0, 0, NoValue)

\* The state after newBuilder(), for the given query result and resource data.
InitWith(roots, res) ==
  /\ rawRec = InputRecs(roots, res)
  /\ rawArr = InputArrs(roots, res)
  /\ resData = ResourceData(res)
  /\ pc = "new"
  /\ jsonData = 0
  /\ resource = NoResource
  /\ visited = {}
  /\ eroot = 0
  /\ estack = << >>
  /\ descended = << >>
  /\ heap = EmptyHeap
  /\ storage = [a \in 1..NumArrs |-> 0]
  /\ tstack = << >>
  /\ converted = << >>
  /\ result = 0
  /\ ops = 0
  /\ last = NoOp
  /\ addLog = {}
  /\ meta = << >>
  /\ schema = NotBuilt

Init == \E roots \in RootInputs, res \in ResInputs : InitWith(roots, res)

\* addResourceData(data) for an array of records that each carry a uid: every
\* record is entered under its uid, a later record replacing an earlier one.
RECURSIVE addResourceData(_, _, _)
addResourceData(index, recs, data) ==
  IF data = << >> THEN index
  ELSE addResourceData([index EXCEPT ![UidOf(recs[Head(data)])] = Head(data)],
                       recs, Tail(data))

AddResourceData ==
  /\ pc = "new"
  /\ resource = NoResource
  /\ resData # << >>
  /\ resource' = addResourceData(resource, rawRec, resData)
  /\ UNCHANGED <<rawVars, pc, jsonData, expVars, trVars, appVars, schemaVars>>

AddJsonData ==
  /\ pc = "new"
  /\ jsonData = 0
  /\ jsonData' = JsonArr
  /\ UNCHANGED <<rawVars, pc, resource, expVars, trVars, appVars, schemaVars>>

ResourceSize == Cardinality({u \in Uids : resource[u] # 0})

\* A fresh frame of expand(visited, resource, source), before its first
\* statement.
Frame(src) == [src |-> src, keys |-> << >>, ki |-> 0, ei |-> 1]

\* build(): expand every root when the resource index is not empty, then
\* transform.
BuildStart ==
  /\ pc = "new"
  /\ jsonData # 0
  /\ IF ResourceSize > 0
     THEN /\ pc' = "expand"
          /\ eroot' = 1
          /\ estack' = << Frame(rawArr[jsonData][1]) >>
     ELSE /\ pc' = "transform"
          /\ UNCHANGED <<eroot, estack>>
  /\ UNCHANGED <<rawVars, cfgVars, visited, descended, trVars, appVars, schemaVars>>

\* ------------------------------------------------------------------ expand

Top == estack[Len(estack)]
Pop == SubSeq(estack, 1, Len(estack) - 1)
SetTop(f) == [estack EXCEPT ![Len(estack)] = f]

\* The visiting key of an edge.
VisitingKey(src, key, node) == UidOf(src) \o ":" \o key \o ":" \o UidOf(node)

\* visited.has(visitingKey)
\* The visited test never succeeding.
NeverVisited(vk) == FALSE

Visited(vk) == vk \in visited

\* resource.has(source.uid)
ResourceHas(rec) == UidOf(rec) \in Uids /\ resource[UidOf(rec)] # 0

\* Entry of expand: merge the indexed record into source when its uid is
\* indexed, then take the keys of source.
ExpandMerge ==
  /\ pc = "expand" /\ estack # << >> /\ Top.ki = 0
  /\ LET src == Top.src
         merged == IF ResourceHas(rawRec[src])
                   THEN ObjectAssign(rawRec[src], rawRec[resource[UidOf(rawRec[src])]])
                   ELSE rawRec[src]
     IN /\ rawRec' = [rawRec EXCEPT ![src] = merged]
        /\ estack' = SetTop([Top EXCEPT !.keys = merged.keys, !.ki = 1, !.ei = 1])
  /\ UNCHANGED <<rawArr, resData, pc, cfgVars, visited, eroot, descended, trVars, appVars, schemaVars>>

CurKey == Top.keys[Top.ki]
CurVal == rawRec[Top.src].val[CurKey]
CurNode == rawArr[CurVal.n][Top.ei]
CurVisitingKey == VisitingKey(rawRec[Top.src], CurKey, rawRec[CurNode])

\* A key that is the type tag or whose value is not an array is passed over.
ExpandSkipKey ==
  /\ pc = "expand" /\ estack # << >>
  /\ Top.ki \in 1..Len(Top.keys)
  /\ (CurKey = TypeTag \/ CurVal.t # "arr")
  /\ estack' = SetTop([Top EXCEPT !.ki = @ + 1, !.ei = 1])
  /\ UNCHANGED <<rawVars, pc, cfgVars, visited, eroot, descended, trVars, appVars, schemaVars>>

\* An element whose edge was not visited: mark the edge and expand the element.
ExpandVisit ==
  /\ pc = "expand" /\ estack # << >>
  /\ Top.ki \in 1..Len(Top.keys)
  /\ CurKey # TypeTag /\ CurVal.t = "arr"
  /\ Top.ei \in 1..Len(rawArr[CurVal.n])
  /\ ~Visited(CurVisitingKey)
  /\ visited' = visited \cup {CurVisitingKey}
  /\ descended' = Append(descended, CurVisitingKey)
  /\ estack' = Append(SetTop([Top EXCEPT !.ei = @ + 1]), Frame(CurNode))
  /\ UNCHANGED <<rawVars, pc, cfgVars, eroot, trVars, appVars, schemaVars>>

\* An element whose edge was visited before is passed over.
ExpandSkipVisited ==
  /\ pc = "expand" /\ estack # << >>
  /\ Top.ki \in 1..Len(Top.keys)
  /\ CurKey # TypeTag /\ CurVal.t = "arr"
  /\ Top.ei \in 1..Len(rawArr[CurVal.n])
  /\ Visited(CurVisitingKey)
  /\ estack' = SetTop([Top EXCEPT !.ei = @ + 1])
  /\ UNCHANGED <<rawVars, pc, cfgVars, visited, eroot, descended, trVars, appVars, schemaVars>>

\* The elements of the array are exhausted: on to the next key.
ExpandNextKey ==
  /\ pc = "expand" /\ estack # << >>
  /\ Top.ki \in 1..Len(Top.keys)
  /\ CurKey # TypeTag /\ CurVal.t = "arr"
  /\ Top.ei > Len(rawArr[CurVal.n])
  /\ estack' = SetTop([Top EXCEPT !.ki = @ + 1, !.ei = 1])
  /\ UNCHANGED <<rawVars, pc, cfgVars, visited, eroot, descended, trVars, appVars, schemaVars>>

\* The keys are exhausted: expand returns to its caller; build goes on with
\* the next root and, after the last root, with transform.
ExpandReturn ==
  /\ pc = "expand" /\ estack # << >>
  /\ Top.ki > Len(Top.keys)
  /\ IF Len(estack) > 1
     THEN /\ estack' = Pop
          /\ UNCHANGED <<pc, eroot>>
     ELSE IF eroot < Len(rawArr[jsonData])
     THEN /\ eroot' = eroot + 1
          /\ estack' = << Frame(rawArr[jsonData][eroot + 1]) >>
          /\ UNCHANGED pc
     ELSE /\ pc' = "transform"
          /\ estack' = << >>
          /\ UNCHANGED eroot
  /\ UNCHANGED <<rawVars, cfgVars, visited, descended, trVars, appVars, schemaVars>>

\* --------------------------------------------------------------- transform

TTop == tstack[Len(tstack)]
TPop == SubSeq(tstack, 1, Len(tstack) - 1)
TSetTop(f) == [tstack EXCEPT ![Len(tstack)] = f]

\* A frame of plainToClassExecutor(cls, plain, storage) after its instances
\* were built: the raw array, the instance array, the index of the instance
\* in hand and the predicate in hand (0 before trackProperties).
TFrame(plain, out) == [plain |-> plain, out |-> out, idx |-> 1, pi |-> 0]

\* storage.has(plain)
\* The storage lookup never succeeding.
StorageNeverHas(plain) == FALSE

StorageHas(plain) == storage[plain] # 0

\* The instance in hand and the raw field of the predicate in hand.
TIns == heap.iarr[TTop.out][TTop.idx]
TPreds == rawRec[rawArr[TTop.plain][TTop.idx]].val[Predicates[TTop.pi].name]

\* transform(entryCls, plain): a new storage, and the first call of
\* plainToClassExecutor, which builds the root instances.
TransformStart ==
  /\ pc = "transform" /\ tstack = << >>
  /\ heap' = plainToClass(heap, rawArr[jsonData], rawRec)
  /\ storage' = [storage EXCEPT ![jsonData] = Len(heap'.iarr)]
  /\ converted' = Append(converted, jsonData)
  /\ tstack' = << TFrame(jsonData, Len(heap'.iarr)) >>
  /\ UNCHANGED <<rawVars, pc, cfgVars, expVars, result, appVars, schemaVars>>

\* The next instance: trackProperties.
TransformTrack ==
  /\ pc = "transform" /\ tstack # << >>
  /\ TTop.idx \in 1..Len(heap.iarr[TTop.out]) /\ TTop.pi = 0
  /\ heap' = trackProperties(heap, TIns)
  /\ tstack' = TSetTop([TTop EXCEPT !.pi = 1])
  /\ UNCHANGED <<rawVars, pc, cfgVars, expVars, storage, converted, result, appVars, schemaVars>>

\* A predicate whose raw field is absent: only the accessors are installed.
TransformNoField ==
  /\ pc = "transform" /\ tstack # << >>
  /\ TTop.idx \in 1..Len(heap.iarr[TTop.out]) /\ TTop.pi \in PredIdx
  /\ TPreds.t # "arr"
  /\ heap' = trackPredicate(heap, TIns, TTop.pi)
  /\ tstack' = TSetTop([TTop EXCEPT !.pi = @ + 1])
  /\ UNCHANGED <<rawVars, pc, cfgVars, expVars, storage, converted, result, appVars, schemaVars>>

\* A predicate whose raw array is in storage: the stored instance array is
\* written to the property.
TransformHit ==
  /\ pc = "transform" /\ tstack # << >>
  /\ TTop.idx \in 1..Len(heap.iarr[TTop.out]) /\ TTop.pi \in PredIdx
  /\ TPreds.t = "arr" /\ StorageHas(TPreds.n)
  /\ heap' = PredicateSetter(trackPredicate(heap, TIns, TTop.pi), TIns, TTop.pi,
                             ArrayValue(storage[TPreds.n]))
  /\ tstack' = TSetTop([TTop EXCEPT !.pi = @ + 1])
  /\ UNCHANGED <<rawVars, pc, cfgVars, expVars, storage, converted, result, appVars, schemaVars>>

\* A predicate whose raw array is not in storage: build its instances, store
\* them and descend.
TransformDescend ==
  /\ pc = "transform" /\ tstack # << >>
  /\ TTop.idx \in 1..Len(heap.iarr[TTop.out]) /\ TTop.pi \in PredIdx
  /\ TPreds.t = "arr" /\ ~StorageHas(TPreds.n)
  /\ heap' = plainToClass(trackPredicate(heap, TIns, TTop.pi), rawArr[TPreds.n], rawRec)
  /\ storage' = [storage EXCEPT ![TPreds.n] = Len(heap'.iarr)]
  /\ converted' = Append(converted, TPreds.n)
  /\ tstack' = Append(tstack, TFrame(TPreds.n, Len(heap'.iarr)))
  /\ UNCHANGED <<rawVars, pc, cfgVars, expVars, result, appVars, schemaVars>>

\* The predicates of the instance are exhausted: on to the next instance.
TransformNextInstance ==
  /\ pc = "transform" /\ tstack # << >>
  /\ TTop.idx \in 1..Len(heap.iarr[TTop.out]) /\ TTop.pi > Len(Predicates)
  /\ tstack' = TSetTop([TTop EXCEPT !.idx = @ + 1, !.pi = 0])
  /\ UNCHANGED <<rawVars, pc, cfgVars, expVars, heap, storage, converted, result, appVars, schemaVars>>

\* build(): purge every returned instance.
PurgeAll(H, elems) ==
  [H EXCEPT !.ins = [i \in 1..Len(H.ins) |->
                       IF InSeq(i, elems) THEN purgeInstance(H.ins[i]) ELSE H.ins[i]]]

\* The instances are exhausted: plainToClassExecutor returns its instance
\* array. The caller writes it to the property of the predicate in hand; the
\* outermost call returns to build, which purges the roots and returns them.
TransformReturn ==
  /\ pc = "transform" /\ tstack # << >>
  /\ TTop.idx > Len(heap.iarr[TTop.out])
  /\ IF Len(tstack) > 1
     THEN LET caller == tstack[Len(tstack) - 1]
              owner == heap.iarr[caller.out][caller.idx]
          IN /\ heap' = PredicateSetter(heap, owner, caller.pi, ArrayValue(TTop.out))
             /\ tstack' = [TPop EXCEPT ![Len(tstack) - 1].pi = @ + 1]
             /\ UNCHANGED <<pc, result>>
     ELSE /\ heap' = PurgeAll(heap, heap.iarr[TTop.out])
          /\ tstack' = << >>
          /\ result' = TTop.out
          /\ pc' = "done"
  /\ UNCHANGED <<rawVars, cfgVars, expVars, storage, converted, appVars, schemaVars>>

\* ------------------------------------------------------------- application

\* The operations of the application on the graph build returned. It writes
\* the predicate properties of the instances build handed to it, the roots.

AppReady == pc = "done" /\ ops < MaxOps

\* The instances build returned.
Roots == IF result = 0 THEN {} ELSE {heap.iarr[result][k] : k \in 1..Len(heap.iarr[result])}
Insts == 1..Len(heap.ins)
Colls == 1..Len(heap.colls)
buildVars == <<rawVars, pc, cfgVars, expVars, storage, tstack, converted, result>>

\* A facet object the application makes.
AppFacet == [fields |-> [f \in {"order"} |-> Num(0)], dirty |-> {}]

\* An element object the application makes: a record with an inline facet
\* field and no accessors.
AppElement ==
  [src |-> 0, uid |-> Abs, name |-> Abs,
   own |-> [k \in FacetKeys |-> Num(5)],
   tracked |-> {}, acc |-> NoAcc, dirty |-> {}]

\* Reading a predicate property that holds nothing yet.
AppGet(i, p) ==
  /\ AppReady
  /\ heap.ins[i].acc[p].installed /\ heap.ins[i].acc[p].stored = 0
  /\ heap' = PredicateGetter(heap, i, p)
  /\ last' = Did("get", 0, 0, 0, 0, i, p, NoValue)
  /\ ops' = ops + 1
  /\ UNCHANGED <<buildVars, addLog, schemaVars>>

\* collection.withFacet(new facet)
AppWithFacet(c) ==
  /\ AppReady
  /\ heap' = withFacet([heap EXCEPT !.fobj = Append(@, AppFacet)], c, Len(heap.fobj) + 1)
  /\ last' = Did("withFacet", c, 0, Len(heap.fobj) + 1, 0, 0, 0, NoValue)
  /\ ops' = ops + 1
  /\ UNCHANGED <<buildVars, addLog, schemaVars>>

\* collection.withFacet(null)
AppWithFacetNull(c) ==
  /\ AppReady
  /\ heap.colls[c].facet # 0
  /\ heap' = withFacet(heap, c, 0)
  /\ last' = Did("withFacet", c, 0, 0, 0, 0, 0, NoValue)
  /\ ops' = ops + 1
  /\ UNCHANGED <<buildVars, addLog, schemaVars>>

\* collection.add(x)
AppAdd(c, x) ==
  /\ AppReady
  /\ heap' = add(heap, c, x)
  /\ last' = Did("add", c, x, heap.colls[c].facet, getFacet(heap, c, x), 0, 0, NoValue)
  /\ addLog' = addLog \cup {<<c, x>>}
  /\ ops' = ops + 1
  /\ UNCHANGED <<buildVars, schemaVars>>

\* collection.update(x)
AppUpdate(c, x) ==
  /\ AppReady
  /\ heap' = update(heap, c, x)
  /\ last' = Did("update", c, x, heap.colls[c].facet, getFacet(heap, c, x), 0, 0, NoValue)
  /\ ops' = ops + 1
  /\ UNCHANGED <<buildVars, addLog, schemaVars>>

\* collection.detach(x)
AppDetach(c, x) ==
  /\ AppReady
  /\ heap' = detach(heap, c, x).heap
  /\ last' = [Did("detach", c, x, heap.colls[c].facet, getFacet(heap, c, x), 0, 0, NoValue)
                EXCEPT !.thrown = detach(heap, c, x).thrown]
  /\ ops' = ops + 1
  /\ UNCHANGED <<buildVars, addLog, schemaVars>>

\* collection.delete(x)
AppDelete(c, x) ==
  /\ AppReady
  /\ heap' = delete(heap, c, x).heap
  /\ last' = [Did("delete", c, x, heap.colls[c].facet, getFacet(heap, c, x), 0, 0, NoValue)
                EXCEPT !.thrown = delete(heap, c, x).thrown]
  /\ ops' = ops + 1
  /\ UNCHANGED <<buildVars, addLog, schemaVars>>

\* The application makes an element object.
AppNewElement ==
  /\ AppReady
  /\ heap' = [heap EXCEPT !.ins = Append(@, AppElement)]
  /\ last' = Did("new", 0, Len(heap.ins) + 1, 0, 0, 0, 0, NoValue)
  /\ ops' = ops + 1
  /\ UNCHANGED <<buildVars, addLog, schemaVars>>

\* owner.property = null, or = an existing collection.
AppWrite(i, p, value) ==
  /\ AppReady
  /\ heap.ins[i].acc[p].installed
  /\ heap' = PredicateSetter(heap, i, p, value)
  /\ last' = Did("write", 0, 0, 0, 0, i, p, value)
  /\ ops' = ops + 1
  /\ UNCHANGED <<buildVars, addLog, schemaVars>>

\* owner.property = [x] or [x, x]: a new array.
AppWriteArray(i, p, elems) ==
  /\ AppReady
  /\ heap.ins[i].acc[p].installed
  /\ LET H1 == [heap EXCEPT !.iarr = Append(@, elems)]
     IN /\ heap' = PredicateSetter(H1, i, p, ArrayValue(Len(H1.iarr)))
        /\ last' = Did("write", 0, 0, 0, 0, i, p, ArrayValue(Len(H1.iarr)))
  /\ ops' = ops + 1
  /\ UNCHANGED <<buildVars, addLog, schemaVars>>

\* instance.name = value
AppAssign(i) ==
  /\ AppReady
  /\ heap' = [heap EXCEPT !.ins[i] = AssignProperty(@, "name", Str("edited"))]
  /\ last' = Did("assign", 0, i, 0, 0, 0, 0, NoValue)
  /\ ops' = ops + 1
  /\ UNCHANGED <<buildVars, addLog, schemaVars>>

\* DiffTracker.purgeInstance(instance)
AppPurge(i) ==
  /\ AppReady
  /\ diffOf(heap.ins[i]) # {}
  /\ heap' = [heap EXCEPT !.ins[i] = purgeInstance(@)]
  /\ last' = Did("purge", 0, i, 0, 0, 0, 0, NoValue)
  /\ ops' = ops + 1
  /\ UNCHANGED <<buildVars, addLog, schemaVars>>

NextApp ==
  \/ \E i \in Insts, p \in PredIdx : AppGet(i, p)
  \/ \E c \in Colls : AppWithFacet(c)
  \/ \E c \in Colls : AppWithFacetNull(c)
  \/ \E c \in Colls, x \in Insts : AppAdd(c, x)
  \/ \E c \in Colls, x \in Insts : AppUpdate(c, x)
  \/ \E c \in Colls, x \in Insts : AppDetach(c, x)
  \/ \E c \in Colls, x \in Insts : AppDelete(c, x)
  \/ AppNewElement
  \/ \E i \in Roots, p \in PredIdx, c \in Colls : AppWrite(i, p, CollValue(c))
  \/ \E i \in Roots, p \in PredIdx : AppWrite(i, p, NoValue)
  \/ \E i \in Roots, p \in PredIdx, x \in Insts : AppWriteArray(i, p, <<x>>)
  \/ \E i \in Roots, p \in PredIdx, x \in Insts : AppWriteArray(i, p, <<x, x>>)
  \/ \E i \in Insts : AppAssign(i)
  \/ \E i \in Insts : AppPurge(i)

\* ---------------------------------------------------------- schema actions

\* A decorator registers a descriptor; a property is declared once.
Declare(d) ==
  /\ ~schema.built
  /\ Len(meta) < MaxDecl
  /\ ~InSeq(d, meta)
  /\ meta' = Append(meta, d)
  /\ UNCHANGED <<rawVars, pc, cfgVars, expVars, trVars, appVars, schema>>

\* SchemaBuilder.build()
SchemaBuild ==
  /\ ~schema.built
  /\ schema' = [built |-> TRUE, lines |-> SchemaLines(meta), text |-> Render(SchemaLines(meta))]
  /\ UNCHANGED <<rawVars, pc, cfgVars, expVars, trVars, appVars, meta>>

NextSchema ==
  \/ \E d \in DeclChoices : Declare(d)
  \/ SchemaBuild

\* ------------------------------------------------------------ specification

NextBuild ==
  \/ AddResourceData
  \/ AddJsonData
  \/ BuildStart
  \/ ExpandMerge
  \/ ExpandSkipKey
  \/ ExpandVisit
  \/ ExpandSkipVisited
  \/ ExpandNextKey
  \/ ExpandReturn
  \/ TransformStart
  \/ TransformTrack
  \/ TransformNoField
  \/ TransformHit
  \/ TransformDescend
  \/ TransformNextInstance
  \/ TransformReturn

Spec == Init /\ [][NextBuild]_vars

\* build runs to its end without waiting for anything: every step that can be
\* taken is taken.
FairSpec == Spec /\ WF_vars(NextBuild)

\* The inputs of the application runs: one root with uid "a" and no inline
\* edges; the resource data hold a record for "a" whose friends are one
\* element without uid (alone or also held under likes) or one element with
\* uid "a".
AppRoots == << [uid |-> "a", kids |-> NoField] >>
AppResInputs ==
  {res \in ResInputs :
     /\ res[1].given /\ res[1].kids \in {<<NoUid>>, <<"a">>}
     /\ (res[1].alias => res[1].kids = <<NoUid>>)
     /\ \A u \in 2..Len(UidSeq) : ~res[u].given}

InitApp == \E res \in AppResInputs : InitWith(AppRoots, res)

Next == NextBuild \/ NextApp

SpecApp == InitApp /\ [][Next]_vars

\* The declaration phase and the schema build, before any builder is used.
InitSchema == InitWith(AppRoots, CHOOSE res \in AppResInputs : TRUE)

SpecSchema == InitSchema /\ [][NextSchema]_vars

\* ------------------------------------------------------------ observations

NoDup(sq) == \A i, j \in 1..Len(sq) : sq[i] = sq[j] => i = j

InsIds == 1..Len(heap.ins)

\* The collection the property p of instance i holds, 0 when none is stored.
Stored(i, p) == heap.ins[i].acc[p].stored

\* The elements of the collections instance i holds.
Children(i) ==
  UNION {{get(heap, Stored(i, p))[k] : k \in 1..Len(get(heap, Stored(i, p)))} :
         p \in {q \in PredIdx : Stored(i, q) # 0}}

RECURSIVE Closure(_)
Closure(S) ==
  LET T == S \cup UNION {Children(i) : i \in S}
  IN IF T = S THEN S ELSE Closure(T)

\* The instances of the returned graph: the roots and everything reachable
\* from them through predicate collections.
Graph == Closure(Roots)

\* The raw field of predicate p on the record instance i was built from.
RawField(i, p) == rawRec[heap.ins[i].src].val[Predicates[p].name]

\* The uids of the element records of the edge field of a raw record.
EdgeUids(r, key) ==
  IF rawRec[r].val[key].t # "arr" THEN {}
  ELSE {UidOf(rawRec[rawArr[rawRec[r].val[key].n][k]]) :
          k \in 1..Len(rawArr[rawRec[r].val[key].n])}

\* The raw records reachable from the roots through array-valued fields other
\* than the type tag.
RawChildren(r) ==
  UNION {{rawArr[rawRec[r].val[k].n][e] : e \in 1..Len(rawArr[rawRec[r].val[k].n])} :
         k \in {x \in AllKeys \ {TypeTag} : rawRec[r].val[x].t = "arr"}}

RECURSIVE RawClosure(_)
RawClosure(S) ==
  LET T == S \cup UNION {RawChildren(r) : r \in S}
  IN IF T = S THEN S ELSE RawClosure(T)

RootRecs == {rawArr[JsonArr][k] : k \in 1..Len(rawArr[JsonArr])}
RawElements == RawClosure(RootRecs) \ RootRecs

WithUid(u) == {i \in Graph : heap.ins[i].uid = Str(u)}

\* ------------------------------------------------------------------ claims

\* The input of the cycle: the index holds a record for "a" whose friends
\* reference "b" and a record for "b" whose friends reference "a", and the
\* only root has uid "a".
CycleInput ==
  /\ resource["a"] # 0 /\ resource["b"] # 0
  /\ "b" \in EdgeUids(resource["a"], FriendsKey)
  /\ "a" \in EdgeUids(resource["b"], FriendsKey)
  /\ Len(rawArr[JsonArr]) = 1
  /\ UidOf(rawRec[rawArr[JsonArr][1]]) = "a"

\* C1: for the cycle input, build returns a graph with exactly one instance of
\* uid "a" and exactly one of uid "b"; the friends of the root contain the
\* "b" instance and the friends of the "b" instance contain the root itself.
C1_OneInstancePerUid ==
  (pc = "done" /\ CycleInput) =>
    /\ Cardinality(WithUid("a")) = 1
    /\ Cardinality(WithUid("b")) = 1
    /\ \A r \in Roots : \A b \in WithUid("b") :
          /\ Stored(r, 1) # 0 /\ InSeq(b, get(heap, Stored(r, 1)))
          /\ Stored(b, 1) # 0 /\ InSeq(r, get(heap, Stored(b, 1)))

\* C2: after build, any two predicate fields that hold the identical raw
\* array hold collections over the identical instance array, and no raw array
\* was converted twice.
C2_SharedArrayConvertedOnce ==
  /\ NoDup(converted)
  /\ pc = "done" =>
       \A i, j \in InsIds : \A p, q \in PredIdx :
         (RawField(i, p).t = "arr" /\ RawField(i, p) = RawField(j, q)) =>
           /\ Stored(i, p) # 0 /\ Stored(j, q) # 0
           /\ heap.colls[Stored(i, p)].data = heap.colls[Stored(j, q)].data
           /\ heap.colls[Stored(i, p)].data = storage[RawField(i, p).n]

\* Two different roots received the identical instance array, and it is not
\* empty.
C2_Witness ==
  /\ pc = "done"
  /\ \E i, j \in Roots :
       /\ i # j
       /\ RawField(i, 1).t = "arr" /\ RawField(i, 1) = RawField(j, 1)
       /\ Stored(i, 1) # Stored(j, 1)
       /\ heap.colls[Stored(i, 1)].data = heap.colls[Stored(j, 1)].data
       /\ get(heap, Stored(i, 1)) # << >>

\* C3: build terminates, expand descends no edge twice and transform converts
\* no raw array twice.
C3_Terminates ==
  /\ []((pc = "expand" \/ pc = "transform") => <>(pc = "done"))
  /\ [](NoDup(descended) /\ NoDup(converted))

\* The cycle input was expanded and transformed, and build has returned.
C3_Witness ==
  /\ pc = "done" /\ CycleInput
  /\ Len(descended) >= 2 /\ Len(converted) >= 2
  /\ \A r \in Roots : Stored(r, 1) # 0 /\ get(heap, Stored(r, 1)) # << >>

\* C4: when build has returned, every instance of the returned graph has an
\* empty diff and every collection installed on it has an empty diff.
C4_CleanBaseline ==
  pc = "done" =>
    \A i \in Graph :
      /\ diffOf(heap.ins[i]) = {}
      /\ \A p \in PredIdx : Stored(i, p) # 0 => getDiff(heap, Stored(i, p)) = {}

\* A returned graph with an instance that is not a root and with a root that
\* is reached again through a collection.
C4_Witness ==
  /\ pc = "done"
  /\ Graph \ Roots # {}
  /\ \E i \in Graph : \E p, q \in PredIdx :
       /\ p # q /\ Stored(i, p) # 0 /\ Stored(i, q) # 0
       /\ get(heap, Stored(i, p)) # << >>
  /\ \A i \in Graph : heap.ins[i].tracked # {}

\* C5: after expand ran with a non-empty index, every element record
\* reachable from a root whose uid is indexed carries every field of the
\* indexed record with the indexed value.
C5_EveryElementMerged ==
  ((pc = "transform" \/ pc = "done") /\ ResourceSize > 0) =>
    \A r \in RawElements :
      ResourceHas(rawRec[r]) =>
        LET full == rawRec[resource[UidOf(rawRec[r])]]
        IN \A k \in AllKeys : InSeq(k, full.keys) => rawRec[r].val[k] = full.val[k]

\* The elements passed to add on collection c since it was made.
Added(c) == {x \in Insts : <<c, x>> \in addLog}

\* C6: after withFacet(f).add(x), getFacet(x) is f; after update(x) with no
\* facet staged, getFacet(x) is absent.
C6_FacetLifecycle ==
  /\ (last.op = "add" /\ last.staged # 0) =>
       getFacet(heap, last.c, last.x) = last.staged
  /\ (last.op = "update" /\ last.staged = 0) =>
       getFacet(heap, last.c, last.x) = 0

\* update(x) with nothing staged, on an element that was added with a facet
\* the application had staged.
C6_Witness ==
  /\ last.op = "update" /\ last.staged = 0
  /\ last.before # 0 /\ heap.fobj[last.before] = AppFacet
  /\ <<last.c, last.x>> \in addLog
  /\ getFacet(heap, last.c, last.x) = 0

\* The instances the property p of instance i holds in heap H.
HeldIn(H, i, p) ==
  LET a == H.iarr[H.colls[H.ins[i].acc[p].stored].data]
  IN {a[k] : k \in 1..Len(a)}

\* C7: after any write to a predicate property, every element of the written
\* value has lost its inline facet fields, and the facet bound to it holds in
\* each field the value the inline field held before the write.
C7_FacetsMoved ==
  [][\A i \in Insts : \A p \in PredIdx :
       (\/ /\ heap'.ins[i].acc[p].stored # heap.ins[i].acc[p].stored
           /\ heap'.ins[i].acc[p].stored # 0
        \/ /\ ops' = ops + 1 /\ last'.op = "write"
           /\ last'.owner = i /\ last'.p = p) =>
         \A e \in HeldIn(heap', i, p) : \A k \in 1..Len(Predicates[p].facets) :
           LET f == Predicates[p].facets[k]
               bound == FacetGet(heap'.fstore, Predicates[p].propertyName, i, e)
           IN /\ heap'.ins[e].own[FacetKey(p, f)] = Abs
              /\ bound # 0
              /\ heap'.fobj[bound].fields[f] = heap.ins[e].own[FacetKey(p, f)]]_vars

\* C9: add with a facet staged attaches it and clears the stage; add with
\* nothing staged attaches nothing; update with a facet staged attaches it and
\* leaves it staged.
C9_StageConsumedByAdd ==
  /\ (last.op = "add" /\ last.staged # 0) =>
       /\ getFacet(heap, last.c, last.x) = last.staged
       /\ heap.colls[last.c].facet = 0
  /\ (last.op = "add" /\ last.staged = 0) =>
       /\ getFacet(heap, last.c, last.x) = last.before
       /\ heap.colls[last.c].facet = 0
  /\ (last.op = "update" /\ last.staged # 0) =>
       /\ getFacet(heap, last.c, last.x) = last.staged
       /\ heap.colls[last.c].facet = last.staged

\* add(y) attached the facet that a preceding update(x) had attached to
\* another element x and left staged.
C9_Witness ==
  /\ last.op = "add" /\ last.staged # 0
  /\ heap.fobj[last.staged] = AppFacet
  /\ \E x \in Insts :
       /\ x # last.x
       /\ getFacet(heap, last.c, x) = last.staged
       /\ <<last.c, x>> \notin addLog

\* C10 as stated: getDiff() is the set of elements passed to add() since
\* construction, and the collection a property holds after a write has an
\* empty diff.
C10_Original ==
  /\ \A c \in Colls : getDiff(heap, c) = Added(c)
  /\ last.op = "write" => getDiff(heap, Stored(last.owner, last.p)) = {}

\* C10, amended: getDiff() is the set of elements passed to add() since
\* construction; a write of nothing or of an array stores a new collection
\* with an empty diff; a write of a collection stores that collection, diff
\* included.
C10_DiffIsAdded ==
  /\ \A c \in Colls : getDiff(heap, c) = Added(c)
  /\ (last.op = "write" /\ last.value.k # "coll") =>
       /\ Stored(last.owner, last.p) = Len(heap.colls)
       /\ getDiff(heap, Stored(last.owner, last.p)) = {}
  /\ (last.op = "write" /\ last.value.k = "coll") =>
       Stored(last.owner, last.p) = last.value.id

\* A collection with elements added to it was written to a property, and a
\* collection built at load over a non-empty array has an empty diff.
C10_Witness ==
  /\ last.op = "write" /\ last.value.k = "coll"
  /\ getDiff(heap, Stored(last.owner, last.p)) # {}
  /\ \E c \in Colls : get(heap, c) # << >> /\ Added(c) = {}

\* The lines after the last type block.
FlatSection(lines) ==
  LET closes == {k \in 1..Len(lines) : lines[k] = "}"}
      from == IF closes = {} THEN 0 ELSE MaxOf(closes)
  IN SubSeq(lines, from + 1, Len(lines))

\* The headers of the type blocks, in order.
Headers(lines, m) ==
  SelectSeq(lines, LAMBDA l : \E k \in 1..Len(m) : l = "type " \o m[k].type \o " {")

\* The registration index of the first property with a line that has the
\* global name n.
FirstIndex(m, n) ==
  CHOOSE k \in 1..Len(m) :
    /\ HasLine(m[k]) /\ GlobalName(m[k]) = n
    /\ \A j \in 1..(k - 1) : ~(HasLine(m[j]) /\ GlobalName(m[j]) = n)

LineNames(m) == {GlobalName(m[k]) : k \in {j \in 1..Len(m) : HasLine(m[j])}}

\* C8: build() emits one block per type in first-registration order, then one
\* flat line per distinct property name in first-registration order, with its
\* index when one was declared, none for uid fields and node-typed predicates;
\* the text ends with a newline; for the declarations of the test it is the
\* text the test expects.
C8_SchemaText ==
  schema.built =>
    LET flat == FlatSection(schema.lines)
        names == LineNames(meta)
    IN /\ Headers(schema.lines, meta) =
            [k \in 1..Len(TypesOf(meta)) |-> "type " \o TypesOf(meta)[k] \o " {"]
       /\ Len(flat) = Cardinality(names)
       /\ \A n \in names : \E k \in 1..Len(flat) : flat[k] = FlatLine(meta[FirstIndex(meta, n)])
       /\ \A k, j \in 1..Len(flat) : \A a, b \in names :
            (k < j /\ flat[k] = FlatLine(meta[FirstIndex(meta, a)])
                   /\ flat[j] = FlatLine(meta[FirstIndex(meta, b)]))
              => FirstIndex(meta, a) < FirstIndex(meta, b)
       /\ schema.text = Render(schema.lines)
       /\ (schema.lines # << >> => schema.text = Render(SubSeq(schema.lines, 1, Len(schema.lines) - 1))
                                                  \o schema.lines[Len(schema.lines)] \o "\n")
       /\ (meta = TestDecls => schema.text = expectedSchema)

\* The schema was built for the declarations of the test.
C8_Witness == schema.built /\ meta = TestDecls /\ schema.text = expectedSchema

\* C11: detach(x) and delete(x) throw 'Not implemented' in every state of the
\* collection and leave the backing arrays, the diffs, the staged facets and
\* the facet bindings as they were.
C11_NotImplemented ==
  [][(ops' = ops + 1 /\ last'.op \in {"detach", "delete"}) =>
       /\ last'.thrown = "Not implemented"
       /\ heap' = heap]_vars

\* detach(x) threw on a collection that had a facet staged and x in its
\* diff.
C11_Witness ==
  /\ last.op = "detach" /\ last.thrown = "Not implemented"
  /\ last.staged # 0 /\ heap.colls[last.c].facet = last.staged
  /\ last.x \in getDiff(heap, last.c)
  /\ InSeq(last.x, get(heap, last.c))

\* C12: add(x) on a collection leaves get() of every collection of another
\* owner or of another predicate property as it was.
C12_AddChangesOwnCollectionOnly ==
  [][(ops' = ops + 1 /\ last'.op = "add") =>
       \A c \in Colls :
         (\/ heap.colls[c].parent # heap.colls[last'.c].parent
          \/ heap.colls[c].ns # heap.colls[last'.c].ns) =>
           get(heap', c) = get(heap, c)]_vars

\* C13: once build has returned, a dirty mark on an instance stays until
\* purgeInstance is called on that instance.
C13_DirtyUntilPurged ==
  [][pc = "done" =>
       \A i \in Insts :
         ~(ops' = ops + 1 /\ last'.op = "purge" /\ last'.x = i) =>
           diffOf(heap.ins[i]) \subseteq diffOf(heap'.ins[i])]_vars

\* C14: writing to a predicate property the collection it holds leaves every
\* element of the collection with a facet of the same field values.
C14_RewriteKeepsFacets ==
  [][\A i \in Insts : \A p \in PredIdx :
       (/\ ops' = ops + 1 /\ last'.op = "write"
        /\ last'.owner = i /\ last'.p = p
        /\ Stored(i, p) # 0 /\ last'.value = CollValue(Stored(i, p))) =>
         \A e \in HeldIn(heap, i, p) :
           LET before == getFacet(heap, Stored(i, p), e)
               after == getFacet(heap', Stored(i, p), e)
           IN before # 0 =>
                /\ after # 0
                /\ heap'.fobj[after].fields = heap.fobj[before].fields]_vars

====
